---- MODULE Spec2Model ----
(***************************************************************************)
(* Model of egui/src/data/input.rs: the per-frame input aggregate RawInput, *)
(* its Default, the state-transfer operation RawInput::take and the debug   *)
(* renderer RawInput::ui, driven by a host that writes the public fields.   *)
(*                                                                          *)
(* f32/f64 values are modelled as exact rationals <<num, den>> in lowest    *)
(* terms with den > 0.  Option<T> is modelled as None or Some(v).           *)
(***************************************************************************)
EXTENDS Integers, Sequences, FiniteSets, TLC

\* ---------------------------------------------------------------- bounds
\* Number of host mutations (field writes, pushes, scroll additions) explored.
MaxHostSteps == 3

\* ---------------------------------------------------------------- numbers
Abs(n) == IF n < 0 THEN -n ELSE n

RECURSIVE Gcd(_, _)
Gcd(a, b) == IF b = 0 THEN a ELSE Gcd(b, a % b)

\* The rational n/d in lowest terms, d > 0.
Rat(n, d) ==
    LET g == Gcd(Abs(n), d)
    IN  IF n = 0 THEN <<0, 1>> ELSE <<n \div g, d \div g>>

RatAdd(p, q) == Rat(p[1] * q[2] + q[1] * p[2], p[2] * q[2])

RatMulInt(p, k) == Rat(p[1] * k, p[2])

RECURSIVE Pow10(_)
Pow10(k) == IF k = 0 THEN 1 ELSE 10 * Pow10(k - 1)

\* format!("{:.k}", x): x rounded to k decimals (ties to even), as the
\* integer count of 10^-k units that the printed digits denote.
FormatFixed(x, k) ==
    LET num == x[1] * Pow10(k)
        den == x[2]
        fl  == num \div den
        rem == num - fl * den
    IN  IF 2 * rem > den THEN fl + 1
        ELSE IF 2 * rem < den THEN fl
        ELSE IF fl % 2 = 0 THEN fl ELSE fl + 1

\* ---------------------------------------------------------------- Option
None == <<"None">>
Some(v) == <<"Some", v>>

\* ---------------------------------------------------------------- math types
vec2(x, y) == [x |-> x, y |-> y]
Vec2_zero == vec2(Rat(0, 1), Rat(0, 1))
\* Vec2::default(), what std::mem::take leaves behind in a Vec2.
Vec2_default == vec2(Rat(0, 1), Rat(0, 1))
Vec2_add(a, b) == vec2(RatAdd(a.x, b.x), RatAdd(a.y, b.y))
pos2(x, y) == [x |-> x, y |-> y]
Rect_from_pos_size(p, s) ==
    [min |-> p, max |-> pos2(RatAdd(p.x, s.x), RatAdd(p.y, s.y))]

\* ---------------------------------------------------------------- Modifiers
Modifiers(alt, ctrl, shift, mac_cmd, command) ==
    [alt |-> alt, ctrl |-> ctrl, shift |-> shift,
     mac_cmd |-> mac_cmd, command |-> command]

\* #[derive(Default)] on Modifiers: every bool is false.
Modifiers_default == Modifiers(FALSE, FALSE, FALSE, FALSE, FALSE)

\* ---------------------------------------------------------------- Event
Copy == [tag |-> "Copy"]
Cut == [tag |-> "Cut"]
Text(s) == [tag |-> "Text", text |-> s]
KeyEvent(key, pressed, modifiers) ==
    [tag |-> "Key", key |-> key, pressed |-> pressed, modifiers |-> modifiers]

\* ---------------------------------------------------------------- RawInput
\* A Default that zeroes predicted_dt, as a derived Default would.
RawInput_default_derived ==
    [mouse_down       |-> FALSE,
     mouse_pos        |-> None,
     scroll_delta     |-> Vec2_zero,
     screen_size      |-> Vec2_zero,
     screen_rect      |-> None,
     pixels_per_point |-> None,
     time             |-> None,
     predicted_dt     |-> Rat(0, 1),
     modifiers        |-> Modifiers_default,
     events           |-> <<>>]

\* impl Default for RawInput
RawInput_default ==
    [mouse_down       |-> FALSE,
     mouse_pos        |-> None,
     scroll_delta     |-> Vec2_zero,
     screen_size      |-> Vec2_default,
     screen_rect      |-> None,
     pixels_per_point |-> None,
     time             |-> None,
     predicted_dt     |-> Rat(1, 60),
     modifiers        |-> Modifiers_default,
     events           |-> <<>>]

RECURSIVE Dedup(_)
Dedup(s) ==
    IF Len(s) <= 1 THEN s
    ELSE IF s[1] = s[2] THEN Dedup(Tail(s))
    ELSE <<s[1]>> \o Dedup(Tail(s))

\* Variants of take's result, each one slip away from the source.
take_result_no_mouse_pos(self) ==
    [self EXCEPT !.mouse_pos = None]

take_result_dedup(self) ==
    [self EXCEPT !.events = Dedup(@)]

take_result_no_command(self) ==
    [self EXCEPT !.modifiers = [@ EXCEPT !.command = FALSE]]

take_result_no_scroll(self) ==
    [self EXCEPT !.scroll_delta = Vec2_zero]

\* RawInput::take, the returned aggregate.
take_result(self) ==
    [mouse_down       |-> self.mouse_down,
     mouse_pos        |-> self.mouse_pos,
     scroll_delta     |-> self.scroll_delta,
     screen_size      |-> self.screen_size,
     screen_rect      |-> self.screen_rect,
     pixels_per_point |-> self.pixels_per_point,
     time             |-> self.time,
     predicted_dt     |-> self.predicted_dt,
     modifiers        |-> self.modifiers,
     events           |-> self.events]

\* Variants of take's effect on the source, each one slip away from it.
take_self_keep_scroll(self) ==
    [self EXCEPT !.events = <<>>]

take_self_keep_events(self) ==
    [self EXCEPT !.scroll_delta = Vec2_zero]

take_self_keep_both(self) == self

take_self_take_screen_size(self) ==
    [self EXCEPT !.scroll_delta = Vec2_zero, !.events = <<>>,
                 !.screen_size = Vec2_zero]

\* RawInput::take, the source after the two std::mem::take calls.
take_self(self) ==
    [self EXCEPT !.scroll_delta = Vec2_default, !.events = <<>>]

\* RawInput::ui, the labels handed to the Ui in call order.
ui_labels(self) ==
    << <<"mouse_down", self.mouse_down>>,
       <<"mouse_pos",
         IF self.mouse_pos = None THEN None
         ELSE Some(pos2(FormatFixed(self.mouse_pos[2].x, 1),
                        FormatFixed(self.mouse_pos[2].y, 1)))>>,
       <<"scroll_delta", self.scroll_delta>>,
       <<"screen_rect", self.screen_rect>>,
       <<"pixels_per_point", self.pixels_per_point>>,
       <<"time",
         IF self.time = None THEN None
         ELSE Some(FormatFixed(self.time[2], 3))>>,
       <<"predicted_dt", FormatFixed(RatMulInt(self.predicted_dt, 1000), 1)>>,
       <<"modifiers", self.modifiers>>,
       <<"events", self.events>> >>

\* A renderer that drains what it shows.
ui_self_drain(self) ==
    [self EXCEPT !.scroll_delta = Vec2_zero, !.events = <<>>]

\* RawInput::ui takes &self: the aggregate after the call.
ui_self(self) == self

\* ---------------------------------------------------------------- host inputs
\* Values the host writes into the public fields.
MousePosInputs == {None, Some(pos2(Rat(25, 2), Rat(40, 1)))}
ScreenSizeInputs == {Vec2_zero, vec2(Rat(800, 1), Rat(600, 1))}
ScreenRectInputs ==
    {None, Some(Rect_from_pos_size(pos2(Rat(0, 1), Rat(0, 1)),
                                   vec2(Rat(800, 1), Rat(600, 1))))}
PixelsPerPointInputs == {None, Some(Rat(2, 1))}
TimeInputs == {None, Some(Rat(3, 2))}
PredictedDtInputs == {Rat(1, 60), Rat(1, 30)}
ModifiersInputs ==
    {Modifiers_default,
     Modifiers(FALSE, TRUE, FALSE, FALSE, TRUE),
     Modifiers(FALSE, FALSE, FALSE, TRUE, TRUE)}
EventInputs ==
    {Copy, Cut, Text("x")}
    \cup {KeyEvent("A", TRUE, m) : m \in ModifiersInputs}
ScrollInputs == {vec2(Rat(0, 1), Rat(-1, 1)), vec2(Rat(3, 1), Rat(2, 1))}

\* The platform rule documented on Modifiers::command.
Conforms(m, mac) == m.command = (IF mac THEN m.mac_cmd ELSE m.ctrl)

\* ---------------------------------------------------------------- state
VARIABLES
    A,               \* the host's RawInput
    R,               \* Some(the aggregate the latest take() returned), or None
    labels,          \* Some(the labels the latest operation gave the Ui), None unless ui()
    is_mac,          \* the platform the host runs on
    op,              \* the latest operation: "new", "host", "take" or "ui"
    streak,          \* take() calls since the latest host mutation, capped at 2
    first,           \* Some(what the first of those calls returned), or None
    appended,        \* every event the host pushed, in push order
    delivered,       \* the events of all take() results, in call order
    scrollAdded,     \* sum of the amounts the host added to scroll_delta
    scrollDelivered, \* sum of the scroll_delta of all take() results
    hostConformed,   \* every Modifiers the host wrote obeyed the platform rule
    nHost            \* host mutations so far

vars == <<A, R, labels, is_mac, op, streak, first, appended, delivered,
          scrollAdded, scrollDelivered, hostConformed, nHost>>

Init ==
    /\ A = RawInput_default
    /\ R = None
    /\ labels = None
    /\ is_mac \in BOOLEAN
    /\ op = "new"
    /\ streak = 0
    /\ first = None
    /\ appended = <<>>
    /\ delivered = <<>>
    /\ scrollAdded = Vec2_zero
    /\ scrollDelivered = Vec2_zero
    /\ hostConformed = TRUE
    /\ nHost = 0

\* Bookkeeping common to every host mutation of A.
HostStep ==
    /\ nHost < MaxHostSteps
    /\ nHost' = nHost + 1
    /\ op' = "host"
    /\ streak' = 0
    /\ first' = None
    /\ labels' = None
    /\ UNCHANGED <<R, is_mac>>

HostSetMouseDown ==
    /\ HostStep
    /\ \E v \in BOOLEAN : A' = [A EXCEPT !.mouse_down = v]
    /\ UNCHANGED <<appended, delivered, scrollAdded, scrollDelivered, hostConformed>>

HostSetMousePos ==
    /\ HostStep
    /\ \E v \in MousePosInputs : A' = [A EXCEPT !.mouse_pos = v]
    /\ UNCHANGED <<appended, delivered, scrollAdded, scrollDelivered, hostConformed>>

HostSetScreenSize ==
    /\ HostStep
    /\ \E v \in ScreenSizeInputs : A' = [A EXCEPT !.screen_size = v]
    /\ UNCHANGED <<appended, delivered, scrollAdded, scrollDelivered, hostConformed>>

HostSetScreenRect ==
    /\ HostStep
    /\ \E v \in ScreenRectInputs : A' = [A EXCEPT !.screen_rect = v]
    /\ UNCHANGED <<appended, delivered, scrollAdded, scrollDelivered, hostConformed>>

HostSetPixelsPerPoint ==
    /\ HostStep
    /\ \E v \in PixelsPerPointInputs : A' = [A EXCEPT !.pixels_per_point = v]
    /\ UNCHANGED <<appended, delivered, scrollAdded, scrollDelivered, hostConformed>>

HostSetTime ==
    /\ HostStep
    /\ \E v \in TimeInputs : A' = [A EXCEPT !.time = v]
    /\ UNCHANGED <<appended, delivered, scrollAdded, scrollDelivered, hostConformed>>

HostSetPredictedDt ==
    /\ HostStep
    /\ \E v \in PredictedDtInputs : A' = [A EXCEPT !.predicted_dt = v]
    /\ UNCHANGED <<appended, delivered, scrollAdded, scrollDelivered, hostConformed>>

HostSetModifiers ==
    /\ HostStep
    /\ \E m \in ModifiersInputs :
          /\ A' = [A EXCEPT !.modifiers = m]
          /\ hostConformed' = (hostConformed /\ Conforms(m, is_mac))
    /\ UNCHANGED <<appended, delivered, scrollAdded, scrollDelivered>>

\* The host accumulates scroll: scroll_delta += d.
HostScroll ==
    /\ HostStep
    /\ \E d \in ScrollInputs :
          /\ A' = [A EXCEPT !.scroll_delta = Vec2_add(@, d)]
          /\ scrollAdded' = Vec2_add(scrollAdded, d)
    /\ UNCHANGED <<appended, delivered, scrollDelivered, hostConformed>>

\* The host appends to the event log: events.push(e).
HostPushEvent ==
    /\ HostStep
    /\ \E e \in EventInputs :
          /\ A' = [A EXCEPT !.events = Append(@, e)]
          /\ appended' = Append(appended, e)
          /\ hostConformed' =
                (hostConformed
                 /\ (e.tag = "Key" => Conforms(e.modifiers, is_mac)))
    /\ UNCHANGED <<delivered, scrollAdded, scrollDelivered>>

\* The engine calls A.take().
Take ==
    /\ R' = Some(take_result(A))
    /\ A' = take_self(A)
    /\ op' = "take"
    /\ streak' = IF streak < 2 THEN streak + 1 ELSE 2
    /\ first' = IF streak = 0 THEN R' ELSE first
    /\ delivered' = delivered \o R'[2].events
    /\ scrollDelivered' = Vec2_add(scrollDelivered, R'[2].scroll_delta)
    /\ labels' = None
    /\ UNCHANGED <<is_mac, appended, scrollAdded, hostConformed, nHost>>

\* The debug view calls A.ui(ui).
Ui ==
    /\ labels' = Some(ui_labels(A))
    /\ A' = ui_self(A)
    /\ op' = "ui"
    /\ UNCHANGED <<R, is_mac, streak, first, appended, delivered, scrollAdded,
                   scrollDelivered, hostConformed, nHost>>

Next ==
    \/ HostSetMouseDown
    \/ HostSetMousePos
    \/ HostSetScreenSize
    \/ HostSetScreenRect
    \/ HostSetPixelsPerPoint
    \/ HostSetTime
    \/ HostSetPredictedDt
    \/ HostSetModifiers
    \/ HostScroll
    \/ HostPushEvent
    \/ Take
    \/ Ui

Spec == Init /\ [][Next]_vars

\* ---------------------------------------------------------------- helpers
\* The steady-state fields of an aggregate.
Steady(r) ==
    <<r.mouse_down, r.mouse_pos, r.screen_rect, r.pixels_per_point,
      r.time, r.predicted_dt, r.modifiers>>

\* Every non-volatile field, the deprecated screen_size included.
NonVolatile(r) == <<Steady(r), r.screen_size>>

\* Every Modifiers value an aggregate carries.
Carried(r) ==
    {r.modifiers}
    \cup {r.events[i].modifiers :
            i \in {j \in 1..Len(r.events) : r.events[j].tag = "Key"}}

AllCarried == Carried(A) \cup (IF R = None THEN {} ELSE Carried(R[2]))

\* ---------------------------------------------------------------- claims

\* C1: the aggregate returned by take() has every steady-state field
\* (mouse_down, mouse_pos, screen_rect, pixels_per_point, time, predicted_dt,
\* modifiers) equal to the value the source held just before the call.
C1_TakeCopiesSteady ==
    [][op' = "take" => Steady(R'[2]) = Steady(A)]_vars

C1_Witness ==
    /\ op = "take"
    /\ R[2].mouse_down
    /\ R[2].mouse_pos # None
    /\ R[2].modifiers # Modifiers_default

\* C2: right after take() returns, the source's scroll_delta is the zero
\* vector and its events are empty, whatever they held before.
C2_TakeZeroesVolatile ==
    op = "take" => A.scroll_delta = Vec2_zero /\ A.events = <<>>

C2_Witness ==
    /\ op = "take"
    /\ R[2].events # <<>>
    /\ R[2].scroll_delta # Vec2_zero

\* C3: the events of take()'s result are element for element the source's
\* events before the call: same length, same order, repeats kept.
C3_TakePreservesEvents ==
    [][op' = "take" => R'[2].events = A.events]_vars

C3_Witness ==
    /\ op = "take"
    /\ Len(R[2].events) = 3
    /\ R[2].events[1].tag = "Key"
    /\ R[2].events[1].pressed
    /\ R[2].events[2] = R[2].events[1]
    /\ R[2].events[3] # R[2].events[1]

\* C4: a second take() with no host mutation since the first returns empty
\* events and a zero scroll_delta, whatever the first returned.
C4_SecondTakeEmpty ==
    streak = 2 => R[2].events = <<>> /\ R[2].scroll_delta = Vec2_zero

C4_Witness ==
    /\ streak = 2
    /\ first[2].events # <<>>
    /\ first[2].scroll_delta # Vec2_zero

\* C5: a default-constructed RawInput has mouse_down false, no mouse_pos,
\* zero scroll_delta, no screen_rect, no time, predicted_dt 1/60, all five
\* modifier flags false and no events.
C5_DefaultValues ==
    op = "new" =>
        /\ A.mouse_down = FALSE
        /\ A.mouse_pos = None
        /\ A.scroll_delta = vec2(<<0, 1>>, <<0, 1>>)
        /\ A.screen_rect = None
        /\ A.time = None
        /\ A.predicted_dt = <<1, 60>>
        /\ ~A.modifiers.alt
        /\ ~A.modifiers.ctrl
        /\ ~A.modifiers.shift
        /\ ~A.modifiers.mac_cmd
        /\ ~A.modifiers.command
        /\ A.events = <<>>

C5_Witness ==
    /\ op = "new"
    /\ nHost = 0
    /\ R = None
    /\ DOMAIN A = DOMAIN RawInput_default

\* C6 as stated: every Modifiers value a RawInput carries has command equal
\* to ctrl on a non-Mac host and to mac_cmd on a Mac host.
C6_Original ==
    \A m \in AllCarried : Conforms(m, is_mac)

\* C6 as amended: the flags are host-written data the code never derives;
\* as long as every Modifiers value the host wrote obeys the platform rule,
\* every Modifiers value carried by the source and by take()'s result obeys it.
C6_ConformancePreserved ==
    hostConformed => \A m \in AllCarried : Conforms(m, is_mac)

C6_Witness ==
    /\ hostConformed
    /\ op = "take"
    /\ R[2].modifiers.command
    /\ \E i \in 1..Len(R[2].events) :
          R[2].events[i].tag = "Key" /\ R[2].events[i].modifiers.command

\* C7: the events of all take() results, concatenated in call order, followed
\* by the events still pending in the source, are exactly the events the host
\* pushed: none delivered twice, none lost, none delivered out of its frame.
C7_EveryEventOnce ==
    delivered \o A.events = appended

C7_Witness ==
    /\ op = "take"
    /\ Len(delivered) = 2
    /\ Len(R[2].events) = 1
    /\ Len(appended) = 2

\* C8: ui() leaves every field of the RawInput unchanged, so a take() after
\* it returns what a take() without it would have returned.
C8_UiReadOnly ==
    [][op' = "ui" =>
          /\ A' = A
          /\ take_result(A') = take_result(A)
          /\ take_self(A') = take_self(A)]_vars

C8_Witness ==
    /\ op = "ui"
    /\ labels # None
    /\ A.events # <<>>
    /\ A.scroll_delta # Vec2_zero

\* C9: take() leaves every non-volatile field of the source unchanged, the
\* deprecated screen_size included, so successive take() calls with no host
\* mutation between them return the same steady-state values.
C9_TakeKeepsNonVolatile ==
    [][op' = "take" =>
          /\ NonVolatile(A') = NonVolatile(A)
          /\ (streak >= 1 => NonVolatile(R'[2]) = NonVolatile(R[2]))]_vars

C9_Witness ==
    /\ streak = 2
    /\ A.mouse_down
    /\ A.screen_size # Vec2_zero
    /\ A.time # None
    /\ NonVolatile(R[2]) = NonVolatile(A)

\* C10: the scroll_delta of all take() results, summed, plus the amount still
\* pending in the source, is the sum of all amounts the host added.
C10_ScrollConserved ==
    Vec2_add(scrollDelivered, A.scroll_delta) = scrollAdded

C10_Witness ==
    /\ op = "host"
    /\ A.scroll_delta # Vec2_zero
    /\ R # None
    /\ R[2].scroll_delta # Vec2_zero
    /\ scrollDelivered # Vec2_zero
====
